---- MODULE Spec2Model ----
(***************************************************************************)
(* A model of the loyverse package: the endpoint client of                 *)
(* loyverse/api.py (the cursor-following get() and the single-request      *)
(* operations), the record validators of loyverse/schemas.py and           *)
(* loyverse/database.py, and the seeder of loyverse/database.py.           *)
(***************************************************************************)
EXTENDS Integers, Sequences, FiniteSets, TLC

(***************************************************************************)
(* Bounds of the model.                                                    *)
(***************************************************************************)
\* the backend serves a collection as at most MaxPages pages
MaxPages == 2
\* the opaque items of a collection are 1..MaxItem
MaxItem == 2
\* from_ids / from_receipt_numbers are called with at most MaxArgs arguments
MaxArgs == 2

(***************************************************************************)
(* Program constants.                                                      *)
(***************************************************************************)
\* api.py:11, the default page size in the default query parameters
DefaultLimit == 250

\* api.py:212-228, the names of the endpoints of the registry
Endpoints ==
    {"categories", "customers", "discounts", "employees", "inventory", "items",
     "modifiers", "payment_types", "pos_devices", "receipts", "shifts",
     "stores", "suppliers", "taxes", "webhooks", "variants"}

\* Python's None, as the value of dict.get() for a missing key
None == "None"

(***************************************************************************)
(* The state.                                                              *)
(***************************************************************************)
VARIABLES
    params,     \* the query-parameter dict: api.py:11 makes it ONE dict, the
                \* default argument, shared by every endpoint of the registry
    pc,         \* where the running client operation stands
    call,       \* the running (or last) client operation and its arguments
    cursor,     \* get(): the local variable cursor
    data,       \* get(): the local variable data
    requests,   \* the HTTP requests the running (or last) operation issued
    statuses,   \* the status of the response to each of them
    outcome,    \* how the last operation ended
    raw,        \* the raw record handed to model_validate
    result,     \* what model_validate made of it
    now,        \* the date at validation time
    tables,     \* the database the seed run is connected to: table -> rows
    run,        \* where the seed run stands
    batch,      \* the seeder's local list: the fetched data, then the models
    snap        \* the tables as they were when the running (or failed)
                \* seeder was called

clientVars == <<pc, call, cursor, data, requests, statuses, outcome>>

schemaVars == <<raw, result, now>>

seedVars == <<tables, run, batch, snap>>

vars == <<params, clientVars, schemaVars, seedVars>>

(***************************************************************************)
(* The backend: a collection served as a chain of pages.  The page after   *)
(* page k is named by the cursor token of page k; the last page carries no *)
(* cursor (None) or an empty one.                                          *)
(***************************************************************************)
Items == 1..MaxItem

\* the items one page carries: none, one, or two
PageItems ==
    {<<>>} \cup {<<i>> : i \in Items} \cup {s \in Items \X Items : s[1] # s[2]}

\* the opaque token that names page k
TokenTable == [k \in 1..(MaxPages + 1) |-> "page" \o ToString(k)]

TokenOf(k) == TokenTable[k]

Tokens == {TokenOf(k) : k \in 1..(MaxPages + 1)}

\* the page a token names
PageOf(tok) == CHOOSE k \in 1..(MaxPages + 1) : TokenOf(k) = tok

\* the field a response carries its collection under: the resource's name,
\* or another one
FieldNames(ep) == {ep, "other"}

\* the collections of 1..MaxPages pages, each page carrying one of
\* pageItems under one of fields, the last page with a cursor of lasts
ChainsOver(fields, pageItems, lasts) ==
    UNION {
        { [k \in 1..n |->
            [field  |-> f,
             items  |-> it[k],
             cursor |-> IF k < n THEN TokenOf(k + 1) ELSE last]] :
          f \in fields, it \in [1..n -> pageItems], last \in lasts }
        : n \in 1..MaxPages }

Chains(ep) == ChainsOver(FieldNames(ep), PageItems, {None, ""})

\* the HTTP statuses a response may carry
Statuses == {200, 429, 500}

\* the page (its index) that answers a request with query parameters p, 0
\* when the cursor of p names no page of the collection
Served(pages, p) ==
    IF "cursor" \notin DOMAIN p THEN 1
    ELSE IF p["cursor"] \in Tokens /\ PageOf(p["cursor"]) \in 1..Len(pages)
         THEN PageOf(p["cursor"])
         ELSE 0

\* the status of the answer to a request the backend would answer with
\* status s: a cursor that names no page is a client error
Answer(pages, p, s) == IF Served(pages, p) = 0 /\ s < 400 THEN 404 ELSE s

\* the document a single-request operation gets back
Doc == "response.json()"

(***************************************************************************)
(* Python's dict and str operations, as the client uses them.              *)
(***************************************************************************)
\* d.get(k)
DictGet(d, k) == IF k \in DOMAIN d THEN d[k] ELSE None

\* d[k] = v, d.update({k: v})
DictSet(d, k, v) == [x \in DOMAIN d \cup {k} |-> IF x = k THEN v ELSE d[x]]

\* del d[k]
DictDel(d, k) == [x \in DOMAIN d \ {k} |-> d[x]]

\* the truth value of a cursor: None and "" are false
TruthyUnlessNone(v) == v # None

Truthy(v) == v \notin {None, ""}

\* ",".join(seq)
RECURSIVE JoinComma(_)
JoinComma(seq) ==
    IF Len(seq) = 0 THEN ""
    ELSE IF Len(seq) = 1 THEN seq[1]
    ELSE seq[1] \o "," \o JoinComma(Tail(seq))

(***************************************************************************)
(* Requests, calls and outcomes.                                           *)
(***************************************************************************)
\* an HTTP request: path is what is appended to the endpoint URL, query the
\* query string written into the URL, qparams the params= argument, body the
\* json= argument
Request(method, ep, path, query, qparams, body) ==
    [method |-> method, ep |-> ep, path |-> path, query |-> query,
     qparams |-> qparams, body |-> body]

\* a client operation: pages is the collection the backend serves while it
\* runs, start is params as the operation found it, again whether it
\* repeats the get() that returned just before it (first: what that one
\* returned)
Call(op, ep, pages, args, json) ==
    [op |-> op, ep |-> ep, pages |-> pages, args |-> args, json |-> json,
     start |-> params, again |-> FALSE, first |-> <<>>]

NoCall ==
    [op |-> "none", ep |-> "", pages |-> <<>>, args |-> <<>>, json |-> <<>>,
     start |-> [limit |-> DefaultLimit], again |-> FALSE, first |-> <<>>]

NoOutcome == [status |-> "none", exc |-> "", code |-> 200, kind |-> "", value |-> <<>>]

\* return data (a list)
ReturnedList(d) ==
    [status |-> "returned", exc |-> "", code |-> 200, kind |-> "list", value |-> d]

\* return response.json()
ReturnedJson ==
    [status |-> "returned", exc |-> "", code |-> 200, kind |-> "json", value |-> <<Doc>>]

\* the exception of response.raise_for_status()
HTTPStatusError(s) ==
    [status |-> "raised", exc |-> "HTTPStatusError", code |-> s, kind |-> "", value |-> <<>>]

\* the exception of del json["id"]
KeyError ==
    [status |-> "raised", exc |-> "KeyError", code |-> 200, kind |-> "", value |-> <<>>]

\* a raise_for_status() that lets the client errors through
RaiseForServerErrorOnly(s) == s >= 500

\* response.raise_for_status() raises
RaiseForStatus(s) == s >= 400

\* response.json().get(self.endpoint, [])
JsonItems(page, ep) == IF page.field = ep THEN page.items ELSE <<>>

\* data = response.json().get(self.endpoint, []): the page replaces data
ExtendOverwrites(d, page, ep) == JsonItems(page, ep)

\* data.extend(response.json().get(self.endpoint, []))
Extend(d, page, ep) == d \o JsonItems(page, ep)

\* self.params["cursor"] = cursor
SetCursor(p, c) == DictSet(p, "cursor", c)

\* if self.params.get("cursor"): del self.params["cursor"]
ResetCursor(p) ==
    IF Truthy(DictGet(p, "cursor")) THEN DictDel(p, "cursor") ELSE p

\* the tables SQLModel.metadata.create_all creates, empty
Seeded == {"employees", "customers", "variants", "items", "receipts"}

EmptyTables == [t \in Seeded |-> {}]

\* run.total: the number of items the source holds of the resource being
\* seeded; run.counted: every table this run has committed has as many rows
\* as the source held items of its resource
NoRun == [phase |-> "none", idx |-> 1, exc |-> "", total |-> 0, counted |-> TRUE]

NotValidated == [validator |-> "", ok |-> FALSE, exc |-> "", model |-> <<>>]

\* the client after the module is imported: api.py:11-16, 212-228
ClientInit ==
    /\ params = [limit |-> DefaultLimit]
    /\ pc = "idle"
    /\ call = NoCall
    /\ cursor = None
    /\ data = <<>>
    /\ requests = <<>>
    /\ statuses = <<>>
    /\ outcome = NoOutcome

\* nothing is being validated
SchemaInit ==
    /\ raw = <<>>
    /\ result = NotValidated
    /\ now = <<2026, 11, 3>>

\* no seed run has started
SeedInit ==
    /\ tables = EmptyTables
    /\ run = NoRun
    /\ batch = <<>>
    /\ snap = EmptyTables

Init == ClientInit /\ SchemaInit /\ SeedInit

(***************************************************************************)
(* LoyverseEndpoint.get                                                    *)
(***************************************************************************)
\* the get() before this one returned, on the same endpoint and collection
CanRepeat(ep, pages) ==
    /\ pc = "done"
    /\ call.op = "get"
    /\ outcome.status = "returned"
    /\ call.ep = ep
    /\ call.pages = pages

\* api.py:45-51: the first request of get(ep), up to the loop
GetStart(ep, pages, again) ==
    /\ IF again THEN CanRepeat(ep, pages) ELSE pc = "idle"
    /\ call' = [Call("get", ep, pages, <<>>, <<>>) EXCEPT
                 !.again = again,
                 !.first = IF again THEN outcome.value ELSE <<>>]
    /\ requests' = <<Request("GET", ep, "", <<>>, params, <<>>)>>
    /\ \E s \in {Answer(pages, params, t) : t \in Statuses} :
        /\ statuses' = <<s>>
        /\ IF RaiseForStatus(s)
           THEN /\ outcome' = HTTPStatusError(s)
                /\ pc' = "done"
                /\ data' = <<>>
                /\ cursor' = None
           ELSE /\ outcome' = NoOutcome
                /\ pc' = "loop"
                /\ data' = Extend(<<>>, pages[Served(pages, params)], ep)
                /\ cursor' = pages[Served(pages, params)].cursor
    /\ UNCHANGED <<params, schemaVars, seedVars>>

\* api.py:52-58: one turn of the loop
GetNext ==
    /\ pc = "loop"
    /\ Truthy(cursor)
    /\ params' = SetCursor(params, cursor)
    /\ requests' = Append(requests, Request("GET", call.ep, "", <<>>, params', <<>>))
    /\ \E s \in {Answer(call.pages, params', t) : t \in Statuses} :
        /\ statuses' = Append(statuses, s)
        /\ IF RaiseForStatus(s)
           THEN /\ outcome' = HTTPStatusError(s)
                /\ pc' = "done"
                /\ data' = <<>>
                /\ cursor' = None
           ELSE /\ outcome' = NoOutcome
                /\ pc' = "loop"
                /\ data' = Extend(data, call.pages[Served(call.pages, params')], call.ep)
                /\ cursor' = call.pages[Served(call.pages, params')].cursor
    /\ UNCHANGED <<call, schemaVars, seedVars>>

\* api.py:60-64: the loop is left, the cursor parameter reset, data returned
GetReturn ==
    /\ pc = "loop"
    /\ ~Truthy(cursor)
    /\ params' = ResetCursor(params)
    /\ outcome' = ReturnedList(data)
    /\ pc' = "done"
    /\ data' = <<>>
    /\ cursor' = None
    /\ UNCHANGED <<call, requests, statuses, schemaVars, seedVars>>

\* the caller has the result (or the exception) of the finished operation:
\* what was recorded of it is dropped, the client's state (params) stays
Resume ==
    /\ pc = "done"
    /\ pc' = "idle"
    /\ call' = NoCall
    /\ requests' = <<>>
    /\ statuses' = <<>>
    /\ outcome' = NoOutcome
    /\ UNCHANGED <<params, cursor, data, schemaVars, seedVars>>

(***************************************************************************)
(* The operations that issue one request.                                  *)
(***************************************************************************)
\* the arguments the operations are called with
IdArgs == {"a", "b"}

ArgLists == UNION {[1..n -> IdArgs] : n \in 0..MaxArgs}

\* payloads, with and without an "id" field
Payloads == UNION {[d -> {"x", "y"}] : d \in SUBSET {"id", "name"}}

\* datetimes, as <<year, month, day, hour, minute, second>>
Datetimes == {<<2025, 1, 15, 0, 0, 0>>, <<2025, 12, 31, 23, 59, 59>>}

\* a number in two digits
Pad2(n) == IF n < 10 THEN "0" \o ToString(n) ELSE ToString(n)

\* date.strftime("%Y-%m-%dT%H:%M:%S.000Z")
Strftime(dt) ==
    ToString(dt[1]) \o "-" \o Pad2(dt[2]) \o "-" \o Pad2(dt[3]) \o "T"
        \o Pad2(dt[4]) \o ":" \o Pad2(dt[5]) \o ":" \o Pad2(dt[6]) \o ".000Z"

\* no params= argument
NoParams == <<>>

\* response = httpx.<method>(...); response.raise_for_status();
\* return response.json()
SingleRequest(c, req) ==
    /\ pc = "idle"
    /\ call' = c
    /\ requests' = <<req>>
    /\ \E s \in Statuses :
        /\ statuses' = <<s>>
        /\ outcome' = IF RaiseForStatus(s) THEN HTTPStatusError(s) ELSE ReturnedJson
    /\ pc' = "done"
    /\ UNCHANGED <<params, cursor, data, schemaVars, seedVars>>

\* an operation that ends before any request
NoRequest(c, out) ==
    /\ pc = "idle"
    /\ call' = c
    /\ requests' = <<>>
    /\ statuses' = <<>>
    /\ outcome' = out
    /\ pc' = "done"
    /\ UNCHANGED <<params, cursor, data, schemaVars, seedVars>>

\* api.py:23-27
FromId(ep, id) ==
    SingleRequest(Call("from_id", ep, <<>>, <<id>>, <<>>),
                  Request("GET", ep, "/" \o id, <<>>, NoParams, <<>>))

\* len(ids) <= 1
NoIdsOffByOne(ids) == Len(ids) <= 1

\* len(ids) == 0
NoIds(ids) == Len(ids) = 0

\* the ids as written into the query string: alone, or comma-joined
IdsArg(ids) == IF Len(ids) = 1 THEN ids[1] ELSE JoinComma(ids)

\* api.py:29-41
FromIds(ep, ids) ==
    IF NoIds(ids)
    THEN NoRequest(Call("from_ids", ep, <<>>, ids, <<>>), ReturnedList(<<>>))
    ELSE SingleRequest(Call("from_ids", ep, <<>>, ids, <<>>),
                       Request("GET", ep, "", <<<<"customer_ids", IdsArg(ids)>>>>,
                               NoParams, <<>>))

\* api.py:66-70
Create(ep, json) ==
    SingleRequest(Call("create", ep, <<>>, <<>>, <<json>>),
                  Request("POST", ep, "", <<>>, NoParams, <<json>>))

\* del json["id"]; json.update({"id": id})
UpdateBody(id, json) == DictSet(DictDel(json, "id"), "id", id)

\* api.py:72-79: del json["id"] raises KeyError when json has no "id"
Update(ep, id, json) ==
    IF "id" \notin DOMAIN json
    THEN NoRequest(Call("update", ep, <<>>, <<id>>, <<json>>), KeyError)
    ELSE SingleRequest(Call("update", ep, <<>>, <<id>>, <<json>>),
                       Request("POST", ep, "", <<>>, NoParams, <<UpdateBody(id, json)>>))

\* api.py:81-85
Delete(ep, id) ==
    SingleRequest(Call("delete", ep, <<>>, <<id>>, <<>>),
                  Request("DELETE", ep, "/" \o id, <<>>, NoParams, <<>>))

\* api.py:96-100
FromEmail(email) ==
    SingleRequest(Call("from_email", "customers", <<>>, <<email>>, <<>>),
                  Request("GET", "customers", "", <<<<"email", email>>>>, NoParams, <<>>))

\* api.py:102-118, 131-147: created_at_min, created_at_max, updated_at_min,
\* updated_at_max
DateBounds == {"created_at_min", "created_at_max", "updated_at_min", "updated_at_max"}

DateBound(key, date) ==
    SingleRequest(Call(key, "customers", <<>>, <<Strftime(date)>>, <<>>),
                  Request("GET", "customers", "", <<<<key, Strftime(date)>>>>,
                          NoParams, <<>>))

\* api.py:120-129, 149-158: created_within, updated_within
DateRanges == {"created", "updated"}

DateWithin(field, start, end) ==
    SingleRequest(Call(field \o "_within", "customers", <<>>,
                       <<Strftime(start), Strftime(end)>>, <<>>),
                  Request("GET", "customers", "",
                          <<<<field \o "_at_min", Strftime(start)>>,
                            <<field \o "_at_max", Strftime(end)>>>>,
                          NoParams, <<>>))

\* api.py:169-175
FromReceiptNumber(n) ==
    SingleRequest(Call("from_receipt_number", "receipts", <<>>, <<n>>, <<>>),
                  Request("GET", "receipts", "", <<<<"receipt_number", n>>>>,
                          NoParams, <<>>))

\* api.py:177-191
FromReceiptNumbers(ns) ==
    IF NoIds(ns)
    THEN NoRequest(Call("from_receipt_numbers", "receipts", <<>>, ns, <<>>),
                   ReturnedList(<<>>))
    ELSE SingleRequest(Call("from_receipt_numbers", "receipts", <<>>, ns, <<>>),
                       Request("GET", "receipts", "",
                               <<<<"receipt_numbers", IdsArg(ns)>>>>, NoParams, <<>>))

\* api.py:193-209: after_receipt_number, before_receipt_number
Neighbours == {"since_receipt_number", "before_receipt_number"}

NeighbourReceipt(key, n) ==
    SingleRequest(Call(key, "receipts", <<>>, <<n>>, <<>>),
                  Request("GET", "receipts", "", <<<<key, n>>, <<"limit", "1">>>>,
                          NoParams, <<>>))

\* an operation starts when no other one runs: the client is synchronous
Idle == pc = "idle"

Next ==
    \/ Idle /\ \E ep \in Endpoints : \E pages \in Chains(ep) :
            GetStart(ep, pages, FALSE)
    \/ GetStart(call.ep, call.pages, TRUE)
    \/ GetNext
    \/ GetReturn
    \/ Resume
    \/ Idle /\ \E ep \in Endpoints, id \in IdArgs : FromId(ep, id)
    \/ Idle /\ \E ep \in Endpoints, ids \in ArgLists : FromIds(ep, ids)
    \/ Idle /\ \E ep \in Endpoints, json \in Payloads : Create(ep, json)
    \/ Idle /\ \E ep \in Endpoints, id \in IdArgs, json \in Payloads :
            Update(ep, id, json)
    \/ Idle /\ \E ep \in Endpoints, id \in IdArgs : Delete(ep, id)
    \/ Idle /\ \E email \in IdArgs : FromEmail(email)
    \/ Idle /\ \E key \in DateBounds, date \in Datetimes : DateBound(key, date)
    \/ Idle /\ \E field \in DateRanges, start \in Datetimes, end \in Datetimes :
            DateWithin(field, start, end)
    \/ Idle /\ \E n \in IdArgs : FromReceiptNumber(n)
    \/ Idle /\ \E ns \in ArgLists : FromReceiptNumbers(ns)
    \/ Idle /\ \E key \in Neighbours, n \in IdArgs : NeighbourReceipt(key, n)

Spec == Init /\ [][Next]_vars

\* the collections get() is run against when only the course of its loop is
\* looked at: the cursors decide it, a page carries no item or one
LoopChains(ep) == ChainsOver(FieldNames(ep), {<<>>, <<1>>}, {None, ""})

\* get() alone, called again and again, each call run to its end: the code
\* of get() is sequential and every httpx.get is a blocking call that comes
\* back with a response, so a loop that can take its next turn takes it
NextGet ==
    \/ Idle /\ \E ep \in Endpoints : \E pages \in LoopChains(ep) :
            GetStart(ep, pages, FALSE)
    \/ GetStart(call.ep, call.pages, TRUE)
    \/ GetNext
    \/ GetReturn
    \/ Resume

SpecGet ==
    /\ Init
    /\ [][NextGet]_vars
    /\ WF_vars(GetNext)
    /\ WF_vars(GetReturn)

(***************************************************************************)
(* The record schemas: loyverse/schemas.py and loyverse/database.py.  A    *)
(* raw record holds the fields the validators read; a date is <<year,      *)
(* month, day>>, and <<>> or a tuple that is no date stands for a value    *)
(* pydantic does not parse as a datetime.                                  *)
(***************************************************************************)
Valid(v, m) == [validator |-> v, ok |-> TRUE, exc |-> "", model |-> <<m>>]

Invalid(v, e) == [validator |-> v, ok |-> FALSE, exc |-> e, model |-> <<>>]

\* pydantic parses d as a datetime
IsDatetime(d) == Len(d) = 3 /\ d[2] \in 1..12 /\ d[3] \in 1..31

\* schemas.py:29-33
join_store_ids(values) == JoinComma(values)

\* schemas.py:16-33: Employee.model_validate
SchemasEmployee(r) ==
    IF r.name = None
    THEN Invalid("schemas.Employee", "ValidationError")
    ELSE Valid("schemas.Employee",
               [id |-> r.id, name |-> r.name, stores |-> join_store_ids(r.stores)])

\* schemas.py:107-132: Receipt.model_validate; no validator reads the dates
\* beyond their type
SchemasReceipt(r) ==
    IF /\ IsDatetime(r.created_at)
       /\ IsDatetime(r.updated_at)
       /\ r.total_money >= 0
    THEN Valid("schemas.Receipt",
               [receipt_number |-> r.receipt_number, created_at |-> r.created_at,
                updated_at |-> r.updated_at, total_money |-> r.total_money,
                customer_id |-> r.customer_id, employee_id |-> r.employee_id,
                line_items |-> r.line_items, payments |-> r.payments])
    ELSE Invalid("schemas.Receipt", "ValidationError")

\* database.py:24-27: id_list[0], an IndexError on an empty list
DbEmployee(r) ==
    IF Len(r.stores) = 0
    THEN Invalid("database.Employee", "IndexError")
    ELSE IF r.name = None
    THEN Invalid("database.Employee", "ValidationError")
    ELSE Valid("database.Employee",
               [id |-> r.id, name |-> r.name, stores |-> r.stores[1]])

\* database.py:30-50
DbCustomer(r) ==
    IF IsDatetime(r.first_visit) /\ r.total_visits >= 0
    THEN Valid("database.Customer",
               [id |-> r.id, first_visit |-> r.first_visit,
                total_visits |-> r.total_visits])
    ELSE Invalid("database.Customer", "ValidationError")

\* database.py:52-69
DbVariant(r) ==
    IF r.default_pricing_type # None /\ r.cost >= 0
    THEN Valid("database.Variant",
               [id |-> r.id, default_pricing_type |-> r.default_pricing_type,
                cost |-> r.cost])
    ELSE Invalid("database.Variant", "ValidationError")

\* database.py:98-102: if value: return ','.join(value), else None
concat_id_list(value) == IF Len(value) > 0 THEN JoinComma(value) ELSE None

\* database.py:104-107
extract_variant_ids(variants) ==
    JoinComma([k \in 1..Len(variants) |-> variants[k].variant_id])

\* database.py:71-107
DbItem(r) ==
    IF r.handle = None
    THEN Invalid("database.Item", "ValidationError")
    ELSE Valid("database.Item",
               [id |-> r.id, handle |-> r.handle,
                tax_ids |-> concat_id_list(r.tax_ids),
                variants |-> extract_variant_ids(r.variants)])

\* database.py:143-147
extract_item_ids(value) == [k \in 1..Len(value) |-> value[k].item_id]

\* database.py:110-147: value[0].get('name') is an IndexError on an empty
\* list of payments; no validator reads the dates beyond their type
DbReceipt(r) ==
    IF Len(r.payments) = 0
    THEN Invalid("database.Receipt", "IndexError")
    ELSE IF /\ IsDatetime(r.created_at)
            /\ IsDatetime(r.updated_at)
            /\ r.total_money >= 0
    THEN Valid("database.Receipt",
               [id |-> r.receipt_number, created_at |-> r.created_at,
                updated_at |-> r.updated_at, total_money |-> r.total_money,
                customer_id |-> r.customer_id, employee_id |-> r.employee_id,
                line_items |-> extract_item_ids(r.line_items),
                payments |-> r.payments[1].name])
    ELSE Invalid("database.Receipt", "ValidationError")

\* the raw records the validators are tried on
StoreLists == {<<>>, <<"s1">>, <<"s1", "s2">>, <<"s2", "s1", "s3">>}

Dates ==
    {<<2024, 12, 31>>, <<2025, 1, 14>>, <<2025, 1, 15>>, <<2025, 6, 1>>,
     <<2026, 11, 3>>, <<2027, 1, 1>>, <<2025, 13, 1>>, <<>>}

RawEmployees == [id : {"e1", "e2"}, name : {"Ann", None}, stores : StoreLists]

RawCustomers == [id : {"c1", "c2"}, first_visit : Dates, total_visits : {-1, 0, 3}]

RawVariants ==
    [id : {"v1", "v2"}, default_pricing_type : {"FIXED", None}, cost : {-1, 0, 5}]

RawItems ==
    [id : {"i1", "i2"}, handle : {"tea", None},
     tax_ids : {<<>>, <<"t1", "t2">>},
     variants : {<<>>, <<[variant_id |-> "v1"]>>,
                 <<[variant_id |-> "v1"], [variant_id |-> "v2"]>>}]

RawReceipts ==
    [receipt_number : {"r1"}, created_at : Dates, updated_at : Dates,
     total_money : {-1, 10},
     customer_id : {None, "c1"}, employee_id : {None},
     line_items : {<<[item_id |-> "i1"]>>},
     payments : {<<>>, <<[name |-> "Cash"], [name |-> "Card"]>>}]

\* the dates a record is validated on
Nows == {<<2025, 6, 1>>, <<2026, 11, 3>>}

\* a record of one kind is about to be validated
SchemaStart(kind, recs) ==
    /\ ClientInit
    /\ SeedInit
    /\ raw \in [kind : {kind}, rec : recs]
    /\ result = NotValidated
    /\ now \in Nows

SchemaSpecInit ==
    \/ SchemaStart("employee", RawEmployees)
    \/ SchemaStart("customer", RawCustomers)
    \/ SchemaStart("variant", RawVariants)
    \/ SchemaStart("item", RawItems)
    \/ SchemaStart("receipt", RawReceipts)

\* Model.model_validate(raw)
ModelValidate(kind, validate(_)) ==
    /\ result = NotValidated
    /\ raw.kind = kind
    /\ result' = validate(raw.rec)
    /\ UNCHANGED <<params, clientVars, seedVars, raw, now>>

ValidateSchemasEmployee == ModelValidate("employee", SchemasEmployee)

ValidateDbEmployee == ModelValidate("employee", DbEmployee)

ValidateDbCustomer == ModelValidate("customer", DbCustomer)

ValidateDbVariant == ModelValidate("variant", DbVariant)

ValidateDbItem == ModelValidate("item", DbItem)

ValidateSchemasReceipt == ModelValidate("receipt", SchemasReceipt)

ValidateDbReceipt == ModelValidate("receipt", DbReceipt)

SchemaNext ==
    \/ ValidateSchemasEmployee
    \/ ValidateDbEmployee
    \/ ValidateDbCustomer
    \/ ValidateDbVariant
    \/ ValidateDbItem
    \/ ValidateSchemasReceipt
    \/ ValidateDbReceipt

SpecSchema == SchemaSpecInit /\ [][SchemaNext]_vars

(***************************************************************************)
(* get() as the seeder calls it: the whole call, from the query parameters *)
(* p it starts with to the parameters it leaves and its outcome, against   *)
(* the collection pages when the backend answers the k-th request with     *)
(* status st[k].                                                           *)
(***************************************************************************)
\* api.py:52-64: the loop from the k-th request on, then the reset
RECURSIVE GetLoop(_, _, _, _, _, _, _)
GetLoop(ep, pages, st, k, p, d, c) ==
    IF ~Truthy(c)
    THEN [params |-> ResetCursor(p), outcome |-> ReturnedList(d), sent |-> k - 1]
    ELSE LET q == SetCursor(p, c)
             s == Answer(pages, q, st[k])
         IN  IF RaiseForStatus(s)
             THEN [params |-> q, outcome |-> HTTPStatusError(s), sent |-> k]
             ELSE GetLoop(ep, pages, st, k + 1, q,
                          Extend(d, pages[Served(pages, q)], ep),
                          pages[Served(pages, q)].cursor)

\* api.py:43-64
GetRun(ep, pages, st, p) ==
    LET s == Answer(pages, p, st[1])
    IN  IF RaiseForStatus(s)
        THEN [params |-> p, outcome |-> HTTPStatusError(s), sent |-> 1]
        ELSE GetLoop(ep, pages, st, 2, p,
                     Extend(<<>>, pages[Served(pages, p)], ep),
                     pages[Served(pages, p)].cursor)

\* the backend answers every request with 200, or one of them with an error
StatusRuns ==
    {[k \in 1..MaxPages |-> 200]}
        \cup {[k \in 1..MaxPages |-> IF k = at THEN s ELSE 200] :
                 at \in 1..MaxPages, s \in Statuses \ {200}}

(***************************************************************************)
(* The seeder: loyverse/database.py.                                       *)
(***************************************************************************)
\* the receipts seeded before the customers and employees they refer to
SeedOrderReceiptsFirst == <<"receipts", "employees", "customers", "variants", "items">>

\* database.py:205-209: the order seed_db calls the seeders in
SeedOrder == <<"employees", "customers", "variants", "items", "receipts">>

\* the resource the running seeder is for
Resource == SeedOrder[run.idx]

\* database.py:155, 164, 173, 182, 191: the model each seeder validates with
DbValidate(ep, r) ==
    CASE ep = "employees" -> DbEmployee(r)
      [] ep = "customers" -> DbCustomer(r)
      [] ep = "variants" -> DbVariant(r)
      [] ep = "items" -> DbItem(r)
      [] ep = "receipts" -> DbReceipt(r)

\* the records the source holds of each resource: two that validate, with
\* different keys, and one that does not
Receipt(n, customer, employee, payments) ==
    [receipt_number |-> n, created_at |-> <<2025, 6, 1>>,
     updated_at |-> <<2025, 6, 1>>, total_money |-> 10,
     customer_id |-> customer, employee_id |-> employee,
     line_items |-> <<[item_id |-> "i1"]>>, payments |-> payments]

SourceRecords(ep) ==
    CASE ep = "employees" ->
            {[id |-> "e1", name |-> "Ann", stores |-> <<"s1", "s2">>],
             [id |-> "e2", name |-> "Bob", stores |-> <<"s1">>],
             [id |-> "e2", name |-> "Bob", stores |-> <<>>]}
      [] ep = "customers" ->
            {[id |-> "c1", first_visit |-> <<2025, 6, 1>>, total_visits |-> 3],
             [id |-> "c2", first_visit |-> <<2025, 6, 1>>, total_visits |-> 0],
             [id |-> "c2", first_visit |-> <<2025, 6, 1>>, total_visits |-> -1]}
      [] ep = "variants" ->
            {[id |-> "v1", default_pricing_type |-> "FIXED", cost |-> 5],
             [id |-> "v2", default_pricing_type |-> "FIXED", cost |-> 0],
             [id |-> "v2", default_pricing_type |-> None, cost |-> 0]}
      [] ep = "items" ->
            {[id |-> "i1", handle |-> "tea", tax_ids |-> <<"t1", "t2">>,
              variants |-> <<[variant_id |-> "v1"]>>],
             [id |-> "i2", handle |-> "milk", tax_ids |-> <<>>,
              variants |-> <<>>],
             [id |-> "i2", handle |-> None, tax_ids |-> <<>>, variants |-> <<>>]}
      [] ep = "receipts" ->
            {Receipt("r1", None, None, <<[name |-> "Cash"]>>),
             Receipt("r2", "c1", "e1", <<[name |-> "Card"]>>),
             Receipt("r2", None, None, <<>>)}

\* the collections the source serves of a resource: under the resource's
\* name, a page carrying no record or one
SeedChains(ep) ==
    ChainsOver({ep}, {<<>>} \cup {<<r>> : r \in SourceRecords(ep)}, {None})

\* the number of items a collection holds in all its pages
RECURSIVE TotalItems(_)
TotalItems(pages) ==
    IF pages = <<>> THEN 0 ELSE Len(Head(pages).items) + TotalItems(Tail(pages))

\* the rows of a list of models
Rows(models) == {models[k] : k \in 1..Len(models)}

\* a row of rows breaks a constraint of table ep: its primary key is that of
\* another row of the batch or of the table (database.py:14, 33, 55, 74,
\* 113), or a receipt refers to a customer or an employee that is in no row
\* (database.py:128-129)
InsertFails(ep, tbls, rows) ==
    \/ \E i, j \in 1..Len(rows) : i < j /\ rows[i].id = rows[j].id
    \/ \E i \in 1..Len(rows) : \E old \in tbls[ep] : old.id = rows[i].id
    \/ /\ ep = "receipts"
       /\ \E i \in 1..Len(rows) :
            \/ /\ rows[i].customer_id # None
               /\ \A c \in tbls["customers"] : c.id # rows[i].customer_id
            \/ /\ rows[i].employee_id # None
               /\ \A e \in tbls["employees"] : e.id # rows[i].employee_id

\* a commit that keeps the rows inserted before the failing one
RECURSIVE AfterCommitPartial(_, _, _)
AfterCommitPartial(ep, tbls, rows) ==
    IF rows = <<>> THEN tbls
    ELSE IF InsertFails(ep, tbls, <<Head(rows)>>) THEN tbls
    ELSE AfterCommitPartial(ep, [tbls EXCEPT ![ep] = @ \cup {Head(rows)}],
                            Tail(rows))

\* session.add(row) for each row, then session.commit(): one transaction,
\* rolled back as a whole when an insert fails
AfterCommit(ep, tbls, rows) ==
    IF InsertFails(ep, tbls, rows) THEN tbls
    ELSE [tbls EXCEPT ![ep] = @ \cup Rows(rows)]

\* database.py:197-204: the engine is created and create_all creates the
\* tables that are not there; fresh: db_name is empty (an in-memory
\* database) or names no file yet, otherwise it names the database file of
\* the run before
SeedStart(fresh) ==
    /\ run.phase \in {"none", "done", "failed"}
    /\ tables' = IF fresh THEN EmptyTables ELSE tables
    /\ run' = [NoRun EXCEPT !.phase = "fetch"]
    /\ batch' = <<>>
    /\ snap' = tables'
    /\ UNCHANGED <<params, clientVars, schemaVars>>

\* the exception leaves the seeder and seed_db: the run is over
Failed(exc) == [run EXCEPT !.phase = "failed", !.exc = exc]

\* database.py:154, 163, 172, 181, 190: data = Loyverse.<resource>.get()
SeedFetch(pages, st) ==
    /\ run.phase = "fetch"
    /\ LET r == GetRun(Resource, pages, st, params)
       IN  /\ params' = r.params
           /\ IF r.outcome.status = "raised"
              THEN /\ run' = [Failed(r.outcome.exc) EXCEPT !.total = TotalItems(pages)]
                   /\ batch' = <<>>
              ELSE /\ run' = [run EXCEPT !.phase = "validate",
                                         !.total = TotalItems(pages)]
                   /\ batch' = r.outcome.value
    /\ UNCHANGED <<tables, snap, clientVars, schemaVars>>

\* database.py:155, 164, 173, 182, 191: [Model.model_validate(d) for d in data]
SeedValidate ==
    /\ run.phase = "validate"
    /\ LET vs == [k \in 1..Len(batch) |-> DbValidate(Resource, batch[k])]
           bad == {k \in 1..Len(batch) : ~vs[k].ok}
       IN  IF bad # {}
           THEN /\ run' = Failed(vs[CHOOSE k \in bad : \A j \in bad : k <= j].exc)
                /\ batch' = <<>>
           ELSE /\ run' = [run EXCEPT !.phase = "commit"]
                /\ batch' = [k \in 1..Len(batch) |-> vs[k].model[1]]
    /\ UNCHANGED <<params, tables, snap, clientVars, schemaVars>>

\* database.py:156-159, 165-168, 174-177, 183-186, 192-195: the session
SeedCommit ==
    /\ run.phase = "commit"
    /\ tables' = AfterCommit(Resource, tables, batch)
    /\ IF InsertFails(Resource, tables, batch)
       THEN /\ run' = Failed("IntegrityError")
            /\ batch' = batch
            /\ snap' = snap
       ELSE /\ run' = [run EXCEPT
                        !.phase = IF run.idx = Len(SeedOrder) THEN "done" ELSE "fetch",
                        !.idx = IF run.idx = Len(SeedOrder) THEN run.idx ELSE run.idx + 1,
                        !.total = 0,
                        !.counted = run.counted
                            /\ Cardinality(tables'[Resource]) = run.total]
            /\ batch' = <<>>
            /\ snap' = tables'
    /\ UNCHANGED <<params, clientVars, schemaVars>>

SeedNext ==
    \/ \E fresh \in BOOLEAN : SeedStart(fresh)
    \/ run.phase = "fetch" /\ \E pages \in SeedChains(Resource), st \in StatusRuns :
            SeedFetch(pages, st)
    \/ SeedValidate
    \/ SeedCommit

SpecSeed == Init /\ [][SeedNext]_vars

(***************************************************************************)
(* The claims about the endpoint client.                                   *)
(***************************************************************************)
\* the concatenation, in page order, of the items found under field ep
RECURSIVE ConcatPages(_, _)
ConcatPages(pages, ep) ==
    IF pages = <<>> THEN <<>>
    ELSE (IF Head(pages).field = ep THEN Head(pages).items ELSE <<>>)
             \o ConcatPages(Tail(pages), ep)

\* a get() has returned
GetReturned == pc = "done" /\ call.op = "get" /\ outcome.status = "returned"

\* the operation started with no cursor in the query parameters
StartedFree == "cursor" \notin DOMAIN call.start

\* an error status
IsErrorStatus(s) == s \in 400..599

\* C1: a get() that started with no cursor in the query parameters returns
\* the concatenation, in page order, of the items under the field named
\* after the resource in every page of the collection, after one GET per
\* page, the first with no cursor and each later one with the cursor the
\* response before it carried.
C1_GetReturnsAllPages ==
    (GetReturned /\ StartedFree) =>
        /\ outcome.kind = "list"
        /\ outcome.value = ConcatPages(call.pages, call.ep)
        /\ Len(requests) = Len(call.pages)
        /\ \A k \in 1..Len(requests) :
            /\ requests[k].method = "GET"
            /\ requests[k].ep = call.ep
            /\ requests[k].path = ""
            /\ requests[k].query = <<>>
        /\ "cursor" \notin DOMAIN requests[1].qparams
        /\ \A k \in 2..Len(requests) :
            DictGet(requests[k].qparams, "cursor") = call.pages[k - 1].cursor

\* a get() over two pages, both carrying items under the resource's name
C1_Witness ==
    /\ GetReturned
    /\ StartedFree
    /\ Len(call.pages) = 2
    /\ \A k \in 1..2 : call.pages[k].field = call.ep /\ call.pages[k].items # <<>>
    /\ Len(outcome.value) >= 2

\* after every get() that returns, params holds no cursor and is otherwise
\* as it was when the call started (the limit is kept), and a get() repeated
\* right after it sends its first request with no cursor
GetLeavesNoCursor ==
    GetReturned =>
        /\ "cursor" \notin DOMAIN params
        /\ params = DictDel(call.start, "cursor")
        /\ DictGet(params, "limit") = DefaultLimit
        /\ call.again => "cursor" \notin DOMAIN requests[1].qparams

\* C2: after every get() that returns, params holds no cursor and is
\* otherwise as it was when the call started (the limit is kept), so that a
\* get() repeated right after it on the same endpoint and collection sends
\* its first request with no cursor and returns what the first call
\* returned.
C2_CursorResetAfterGet ==
    /\ GetLeavesNoCursor
    /\ (GetReturned /\ call.again) => outcome.value = call.first

\* C3: a response with an error status is the last response of its
\* operation: the operation has ended with the HTTP exception carrying that
\* status, no request follows the failed one and nothing is returned.
C3_SingleAttempt ==
    /\ Len(statuses) = Len(requests)
    /\ \A k \in 1..Len(statuses) :
        IsErrorStatus(statuses[k]) =>
            /\ k = Len(requests)
            /\ pc = "done"
            /\ outcome.status = "raised"
            /\ outcome.exc = "HTTPStatusError"
            /\ outcome.code = statuses[k]
            /\ outcome.value = <<>>

\* a get() failed on its second page, after a first page with items
C3_Witness ==
    /\ pc = "done"
    /\ call.op = "get"
    /\ Len(requests) = 2
    /\ IsErrorStatus(statuses[2])
    /\ call.pages[1].field = call.ep
    /\ call.pages[1].items # <<>>
    /\ outcome.status = "raised"

\* C9: from_ids() and from_receipt_numbers() with no argument return an
\* empty list, issue no request and leave params alone; with one argument
\* or more they issue exactly one GET.
C9_EmptyIdsNoRequest ==
    (pc = "done" /\ call.op \in {"from_ids", "from_receipt_numbers"}) =>
        IF Len(call.args) = 0
        THEN /\ outcome.status = "returned"
             /\ outcome.kind = "list"
             /\ outcome.value = <<>>
             /\ requests = <<>>
             /\ params = call.start
        ELSE /\ Len(requests) = 1
             /\ requests[1].method = "GET"

\* from_ids() was called with no id, after a get() left a cursor in params
C9_Witness ==
    /\ pc = "done"
    /\ call.op = "from_ids"
    /\ call.args = <<>>
    /\ "cursor" \in DOMAIN params
    /\ outcome.status = "returned"

\* C10: update(id, payload) sends exactly one POST whose body holds id under
\* "id" and every other field of the payload, whether or not the payload
\* has an "id" field.
C10_UpdateSendsPayloadWithId ==
    (pc = "done" /\ call.op = "update") =>
        /\ Len(requests) = 1
        /\ requests[1].method = "POST"
        /\ DOMAIN requests[1].body[1] = DOMAIN call.json[1] \cup {"id"}
        /\ requests[1].body[1]["id"] = call.args[1]
        /\ \A f \in DOMAIN call.json[1] \ {"id"} :
            requests[1].body[1][f] = call.json[1][f]

\* the page the first request of the running get() is answered with (0: the
\* cursor it carries names no page), and the pages of the chain from there
StartPage == Served(call.pages, call.start)

ChainLength == IF StartPage = 0 THEN 1 ELSE Len(call.pages) - StartPage + 1

\* C12: a get() against a finite chain of pages ends, returning or raising:
\* it never sends more requests than the chain has pages, it returns only
\* after one request for each page of the chain, when the last response
\* carried no truthy cursor, and it raises only on a response with an error
\* status; the loop goes on for as many pages as the chain has.
C12_GetTerminates ==
    /\ [](call.op = "get" =>
            /\ Len(requests) <= ChainLength
            /\ pc = "done" =>
                \/ /\ outcome.status = "returned"
                   /\ Len(requests) = ChainLength
                   /\ ~Truthy(call.pages[Len(call.pages)].cursor)
                   /\ \A k \in 1..Len(statuses) : ~IsErrorStatus(statuses[k])
                \/ /\ outcome.status = "raised"
                   /\ outcome.exc = "HTTPStatusError"
                   /\ IsErrorStatus(statuses[Len(statuses)]))
    /\ (pc = "loop") ~> (pc = "done")

\* a get() has returned after one request for each of the pages of the
\* longest chain, whose last page carried an empty cursor
C12_Witness ==
    /\ GetReturned
    /\ Len(call.pages) = MaxPages
    /\ Len(requests) = MaxPages
    /\ call.pages[MaxPages].cursor = ""

\* C13: the first request of every get(), on any endpoint and after any
\* calls before it, those that failed on a later page included, carries no
\* cursor parameter.
C13_NoLeftoverCursor ==
    (call.op = "get" /\ requests # <<>>) =>
        "cursor" \notin DOMAIN requests[1].qparams

\* get() step by step and get() as one call agree: on the parameters left,
\* the outcome and the number of requests
GetRunAgrees ==
    (pc = "done" /\ call.op = "get") =>
        LET st == [k \in 1..MaxPages |->
                      IF k <= Len(statuses) THEN statuses[k] ELSE 200]
            r == GetRun(call.ep, call.pages, st, call.start)
        IN  /\ r.params = params
            /\ r.outcome = outcome
            /\ r.sent = Len(requests)

(***************************************************************************)
(* The claims about the seeder.                                            *)
(***************************************************************************)
\* C4: when a seed run has completed, each of the five tables has as many
\* rows as the source held items of its resource, none when it held none.
C4_RowCountsEqualSource == run.phase = "done" => run.counted

\* the exceptions a seeder ends with
SeederExceptions == {"HTTPStatusError", "ValidationError", "IndexError", "IntegrityError"}

\* C5: when a seeder fails, in its fetch, in the validation of a record or
\* in the insertion of a row, every table is as it was when the seeder was
\* called, the seeder ends with an exception, and nothing more of the run
\* happens: the next step, if any, is the start of another run.
C5_SeederAllOrNothing ==
    /\ [](run.phase = "failed" => (tables = snap /\ run.exc \in SeederExceptions))
    /\ [][run.phase = "failed" => (run'.phase = "fetch" /\ run'.idx = 1)]_vars

\* a commit failed on the second row of a batch whose first row alone would
\* have been inserted
C5_Witness ==
    /\ run.phase = "failed"
    /\ run.exc = "IntegrityError"
    /\ Len(batch) >= 2
    /\ ~InsertFails(Resource, tables, <<batch[1]>>)

\* the tables with table ep emptied
Emptied(tbls, ep) == [tbls EXCEPT ![ep] = {}]

\* C6: a seeder's commit replaces the rows of its table: it does not fail
\* on rows an earlier run left there, and it leaves in the table exactly the
\* rows this run fetched.
C6_RowsReplacedPerRun ==
    [][run.phase = "commit" =>
        /\ ~InsertFails(Resource, Emptied(tables, Resource), batch)
                => run'.phase # "failed"
        /\ run'.phase # "failed" => tables'[Resource] = Rows(batch)]_vars

\* the order the specification gives for the resources of a seed run
StatedOrder == <<"employees", "customers", "variants", "items", "receipts">>

\* the tables other than table t are left alone by the step
OnlyTableChanges(t) == \A u \in Seeded \ {t} : tables'[u] = tables[u]

\* C11: a seed run goes through employees, customers, variants, items and
\* receipts in this order, each as one fetch, then the validation of what
\* was fetched, then one commit: the fetch of the k-th resource returns
\* records of that resource and touches no table, the validation touches no
\* table, the commit writes the table of that resource only (so no receipt
\* row is written before the commits of employees and customers), and the
\* fetch of the next resource is the step after the commit.
C11_SeedersRunInOrder ==
    [][/\ run.phase \in {"none", "done", "failed"} =>
            run'.phase = "fetch" /\ run'.idx = 1
       /\ run.phase = "fetch" =>
            /\ run'.idx = run.idx
            /\ run'.phase \in {"validate", "failed"}
            /\ tables' = tables
            /\ run'.phase = "validate" =>
                 \A k \in 1..Len(batch') :
                     batch'[k] \in SourceRecords(StatedOrder[run.idx])
       /\ run.phase = "validate" =>
            /\ run'.idx = run.idx
            /\ run'.phase \in {"commit", "failed"}
            /\ tables' = tables
       /\ run.phase = "commit" =>
            /\ OnlyTableChanges(StatedOrder[run.idx])
            /\ tables'[StatedOrder[run.idx]] \in
                    {tables[StatedOrder[run.idx]],
                     tables[StatedOrder[run.idx]] \cup Rows(batch)}
            /\ \/ run'.phase = "failed" /\ run'.idx = run.idx /\ tables' = tables
               \/ run.idx < 5 /\ run'.phase = "fetch" /\ run'.idx = run.idx + 1
               \/ run.idx = 5 /\ run'.phase = "done"]_vars

\* a run is done whose receipts table holds a receipt of a customer and an
\* employee, both in their tables
C11_Witness ==
    /\ run.phase = "done"
    /\ \E r \in tables["receipts"] :
        /\ \E c \in tables["customers"] : c.id = r.customer_id
        /\ \E e \in tables["employees"] : e.id = r.employee_id

(***************************************************************************)
(* The claims about the record schemas.                                    *)
(***************************************************************************)
\* the store-opening date the specification names
OpeningDate == <<2025, 1, 15>>

\* date a is before date b
DateLess(a, b) ==
    \/ a[1] < b[1]
    \/ a[1] = b[1] /\ a[2] < b[2]
    \/ a[1] = b[1] /\ a[2] = b[2] /\ a[3] < b[3]

\* neither before the opening date nor after the date of validation
InBusinessRange(d) == ~DateLess(d, OpeningDate) /\ ~DateLess(now, d)

\* a receipt was validated whose fields other than the range of its dates
\* are all valid
ReceiptValidated ==
    /\ result.validator \in {"schemas.Receipt", "database.Receipt"}
    /\ IsDatetime(raw.rec.created_at)
    /\ IsDatetime(raw.rec.updated_at)
    /\ raw.rec.total_money >= 0
    /\ raw.rec.payments # <<>>

\* C7: a receipt is accepted exactly when created_at and updated_at are
\* neither before the opening date 2025-01-15 nor in the future at the time
\* of validation.
C7_ReceiptDatesEnforced ==
    ReceiptValidated =>
        (result.ok <=> (InBusinessRange(raw.rec.created_at)
                        /\ InBusinessRange(raw.rec.updated_at)))

\* an employee was validated whose name is valid and whose stores is a list
\* of store ids
EmployeeValidated ==
    /\ result.validator \in {"schemas.Employee", "database.Employee"}
    /\ raw.rec.name # None

\* C8: validation of an employee whose stores is a list of zero or more
\* store ids succeeds; stores becomes the comma-join of the ids under
\* schemas.Employee and the first id under database.Employee.
C8_EmployeeStoresFlattened ==
    EmployeeValidated =>
        /\ result.ok
        /\ result.validator = "schemas.Employee" =>
                result.model[1].stores = JoinComma(raw.rec.stores)
        /\ result.validator = "database.Employee" =>
                result.model[1].stores = raw.rec.stores[1]

====
